---- MODULE Spec2Model ----
(***************************************************************************)
(* markdown-it-paged: the layout marker block rule (markerBlock) and the   *)
(* scope transform core rule (layout_transform) of src/src/index.js.       *)
(*                                                                         *)
(* One document is parsed into state.tokens by the block phase (marker     *)
(* lines become layout_marker tokens, every other line a content token),   *)
(* then layout_transform rewrites state.tokens in one pass.                *)
(***************************************************************************)
EXTENDS Integers, Sequences, FiniteSets, TLC

\* The documents explored: every document of at most MaxLen block tokens, and
\* every document of at most MaxMarkers marker lines and nothing else.
MaxLen == 4
MaxMarkers == 6

\* The marker lines explored one by one: a head word and at most MaxWords words.
MaxWords == 3

\* JavaScript null; a name or attribute value that is absent.
null == "null"

Kinds == {"spread", "page", "section", "break"}

\* Names and inline attributes the marker lines of the explored documents carry.
MarkerNames == [spread |-> {"s"}, page |-> {"p"}, section |-> {"a"}, break |-> {null}]
MarkerAttrs == [spread |-> {<<>>}, page |-> {<<>>}, section |-> {<<>>}, break |-> {<<>>}]

\* token.meta of a layout_marker token, as parseMarkerLine returns it
\* (attrs is the attrs object as its list of <<key, value>> entries).
Metas == UNION {[kind : {k}, name : MarkerNames[k], attrs : MarkerAttrs[k]] : k \in Kinds}

\* The plugin options: every combination of the three booleans.
Options == [implicitPage : BOOLEAN, preferPagesInSpreads : BOOLEAN,
            warnOnBreakWithoutScope : BOOLEAN]

VARIABLES
  options,            \* options of plugin(md, pluginOptions)
  tokens,             \* state.tokens
  layoutMarkersUsed,  \* state.env.__layoutMarkersUsed
  layoutWarnings,     \* state.env.layoutWarnings
  pc,                 \* "block" while the block phase runs, "done" after the core rule
  input,              \* history: state.tokens as layout_transform received it
  steps,              \* history: the locals of layout_transform at the start of each
                      \* loop iteration, and last when the loop is over
  altOptions,         \* options of a second render of the same document
  altTokens,          \* state.tokens of the second render
  altWarnings,        \* env.layoutWarnings of the second render
  src,                \* state.src: the source line markerBlock is offered, as its characters
  typed               \* history: the words the line was written from

vars == <<options, tokens, layoutMarkersUsed, layoutWarnings, pc, input, steps,
          altOptions, altTokens, altWarnings, src, typed>>

----------------------------------------------------------------------------
\* JavaScript truthiness of a string-or-null value.
Truthy(v) == v # null /\ v # ""

\* F applied to the value of v, v being evaluated once (a statement's result
\* that the statements after it read several times).
Bind(v, F(_)) == CHOOSE r \in {F(x) : x \in {v}} : TRUE

\* markdown-it Token attributes: a list of <<name, value>> pairs.

\* token.attrIndex(name): the index of the first attribute of that name, 0 if none.
AttrIndex(attrs, key) ==
  IF \A n \in 1..Len(attrs) : attrs[n][1] # key THEN 0
  ELSE CHOOSE n \in 1..Len(attrs) :
         attrs[n][1] = key /\ \A m \in 1..(n - 1) : attrs[m][1] # key

\* token.attrSet(name, value): overwrite the attribute if present, else append it.
attrSet(attrs, key, val) ==
  IF AttrIndex(attrs, key) = 0 THEN Append(attrs, <<key, val>>)
  ELSE [attrs EXCEPT ![AttrIndex(attrs, key)] = <<key, val>>]

\* obj[key] of a marker's attrs object; null when the key is absent.
AttrGet(attrs, key) ==
  IF AttrIndex(attrs, key) = 0 THEN null ELSE attrs[AttrIndex(attrs, key)][2]

----------------------------------------------------------------------------
\* parseMarkerLine.  A line, and every token of it, is the sequence of its
\* characters (strings of length one); names, keys and values leave the parser
\* as strings.

\* The string of a sequence of characters.
RECURSIVE Str(_)
Str(cs) == IF cs = <<>> THEN "" ELSE cs[1] \o Str(Tail(cs))

\* /\s/.test(ch)
IsSpace(ch) == ch \in {" ", "\t"}

\* s.trim()
RECURSIVE trim(_)
trim(cs) ==
  IF cs = <<>> THEN cs
  ELSE IF IsSpace(cs[1]) THEN trim(Tail(cs))
  ELSE IF IsSpace(cs[Len(cs)]) THEN trim(SubSeq(cs, 1, Len(cs) - 1))
  ELSE cs

\* s.startsWith(ch), s.includes(ch), s.indexOf(ch) (0-based, -1 if absent) and
\* s.slice(from), s.slice(from, to) (0-based, to excluded).
startsWith(cs, ch) == Len(cs) > 0 /\ cs[1] = ch
includes(cs, ch) == \E n \in 1..Len(cs) : cs[n] = ch
indexOf(cs, ch) ==
  IF ~includes(cs, ch) THEN -1
  ELSE (CHOOSE n \in 1..Len(cs) : cs[n] = ch /\ \A m \in 1..(n - 1) : cs[m] # ch) - 1
slice(cs, from) == SubSeq(cs, from + 1, Len(cs))
sliceTo(cs, from, to) == SubSeq(cs, from + 1, to)

\* if (buf) tokens.push(buf)
pushBuf(toks, buf) == IF buf # <<>> THEN Append(toks, buf) ELSE toks

\* The tokenizer loop of parseMarkerLine from character i on: whitespace
\* separates tokens, a quote character opens a span that the same character
\* closes, the quote characters themselves are dropped.
RECURSIVE tokenize(_, _, _, _, _)
tokenize(cs, i, buf, quote, toks) ==
  IF i > Len(cs) THEN pushBuf(toks, buf)
  ELSE IF quote # null
       THEN IF cs[i] = quote THEN tokenize(cs, i + 1, buf, null, toks)
            ELSE tokenize(cs, i + 1, Append(buf, cs[i]), quote, toks)
  ELSE IF cs[i] \in {"\"", "'"} THEN tokenize(cs, i + 1, buf, cs[i], toks)
  ELSE IF IsSpace(cs[i]) THEN tokenize(cs, i + 1, <<>>, null, pushBuf(toks, buf))
  ELSE tokenize(cs, i + 1, Append(buf, cs[i]), null, toks)

\* val.split(/[,\s]+/).filter(Boolean), the pieces as strings.
RECURSIVE splitClasses(_, _, _, _)
splitClasses(cs, i, buf, pieces) ==
  IF i > Len(cs) THEN (IF buf # <<>> THEN Append(pieces, Str(buf)) ELSE pieces)
  ELSE IF cs[i] = "," \/ IsSpace(cs[i])
       THEN splitClasses(cs, i + 1, <<>>,
                         IF buf # <<>> THEN Append(pieces, Str(buf)) ELSE pieces)
  ELSE splitClasses(cs, i + 1, Append(buf, cs[i]), pieces)

\* classes.join(' ')
RECURSIVE join(_)
join(pieces) ==
  IF pieces = <<>> THEN ""
  ELSE IF Len(pieces) = 1 THEN pieces[1]
  ELSE pieces[1] \o " " \o join(Tail(pieces))

\* attrs[key] = val on the attrs object, kept as its entries in insertion order.
setProp(obj, key, val) == attrSet(obj, key, val)

\* The attribute loop of parseMarkerLine from token idx on (1-based here); the
\* result is the attrs object and the classes list when the loop is over.
RECURSIVE attrLoop(_, _, _, _)
attrLoop(toks, idx, attrs, classes) ==
  IF idx > Len(toks) THEN [attrs |-> attrs, classes |-> classes]
  ELSE IF startsWith(toks[idx], ".")
       THEN attrLoop(toks, idx + 1, attrs,
                     IF trim(slice(toks[idx], 1)) # <<>>
                     THEN Append(classes, Str(trim(slice(toks[idx], 1))))
                     ELSE classes)
  ELSE IF startsWith(toks[idx], "#")
       THEN attrLoop(toks, idx + 1,
                     IF trim(slice(toks[idx], 1)) # <<>>
                     THEN setProp(attrs, "id", Str(trim(slice(toks[idx], 1))))
                     ELSE attrs,
                     classes)
  ELSE IF indexOf(toks[idx], "=") > 0
       THEN LET eq == indexOf(toks[idx], "=")
                key == Str(trim(sliceTo(toks[idx], 0, eq)))
                val == trim(slice(toks[idx], eq + 1))
            IN IF key = "" THEN attrLoop(toks, idx + 1, attrs, classes)
               ELSE IF key = "class"
                    THEN attrLoop(toks, idx + 1, attrs,
                                  classes \o splitClasses(val, 1, <<>>, <<>>))
               ELSE attrLoop(toks, idx + 1, setProp(attrs, key, Str(val)), classes)
  ELSE attrLoop(toks, idx + 1, attrs, classes)

\* What parseMarkerLine returns for null: no marker.
NoMarker == [kind |-> null, name |-> null, attrs |-> <<>>]

\* The optional name: the second token unless it is an attribute or a shorthand.
hasName(toks) ==
  /\ Len(toks) >= 2
  /\ ~includes(toks[2], "=")
  /\ ~startsWith(toks[2], ".")
  /\ ~startsWith(toks[2], "#")

\* parseMarkerLine past the kind: the name, the attribute loop, attrs.class.
parseAttrs(kind, toks) ==
  LET r == attrLoop(toks, IF hasName(toks) THEN 3 ELSE 2, <<>>, <<>>)
  IN [kind |-> kind,
      name |-> IF hasName(toks) THEN Str(toks[2]) ELSE null,
      attrs |-> IF r.classes # <<>> THEN setProp(r.attrs, "class", join(r.classes))
                ELSE r.attrs]

\* parseTokens without its test of the kind against the four recognized kinds.
parseTokens_noKindCheck(toks) ==
  LET kind == Str(slice(toks[1], 1))
  IN IF kind = "break" THEN [kind |-> kind, name |-> null, attrs |-> <<>>]
     ELSE parseAttrs(kind, toks)

\* parseMarkerLine from the tokens of the trimmed line.
parseTokens(toks) ==
  LET kind == Str(slice(toks[1], 1))
  IN IF kind \notin Kinds THEN NoMarker
     ELSE IF kind = "break" THEN [kind |-> kind, name |-> null, attrs |-> <<>>]
     ELSE parseAttrs(kind, toks)

parseMarkerLine(cs) ==
  IF ~startsWith(trim(cs), "@") THEN NoMarker
  ELSE Bind(tokenize(trim(cs), 1, <<>>, null, <<>>), parseTokens)

----------------------------------------------------------------------------
\* Tokens.  meta is set on layout_marker tokens only; map is the source line of
\* a token the block phase made, 0 for a token layout_transform inserts.

NoMeta == [kind |-> null, name |-> null, attrs |-> <<>>, line |-> 0]

\* new state.Token(type, 'div', nesting), with the attributes set on it.
Token(type, attrs) == [type |-> type, attrs |-> attrs, meta |-> NoMeta, map |-> 0]

\* A content token of the host's own block rules, made for source line n.
ContentToken(n) == [type |-> "paragraph", attrs |-> <<>>, meta |-> NoMeta, map |-> n]

\* The layout_marker token markerBlock pushes for a marker on source line n.
MarkerToken(m, n) ==
  [type |-> "layout_marker", attrs |-> <<>>,
   meta |-> [kind |-> m.kind, name |-> m.name, attrs |-> m.attrs, line |-> n],
   map |-> n]

\* The record of layout_transform's locals and the env.layoutWarnings it appends to.
Locals(o, so, po, xo, sn, sw, lw) ==
  [out |-> o, spreadOpen |-> so, pageOpen |-> po, sectionOpen |-> xo,
   spreadStartedWithNoPagesYet |-> sn, sawAnyPageInsideCurrentSpread |-> sw,
   layoutWarnings |-> lw]

\* The locals as layout_transform initialises them, env.layoutWarnings being lw.
InitLocals(lw) == Locals(<<>>, FALSE, FALSE, FALSE, FALSE, FALSE, lw)

\* env.layoutWarnings.push({ line, type, message, marker }); the message is a
\* fixed text per type and is left out.
warn(s, line, type, marker) ==
  [s EXCEPT !.layoutWarnings = Append(@, [line |-> line, type |-> type, marker |-> marker])]

\* addClasses(token, baseClass, extraClass): the class attribute, base class first.
addClasses(attrs, baseClass, extraClass) ==
  IF Truthy(extraClass) THEN attrSet(attrs, "class", baseClass \o " " \o extraClass)
  ELSE attrSet(attrs, "class", baseClass)

\* The loop of attachDataAttrs over Object.entries(attrs), from entry n on.
RECURSIVE DataEntries(_, _, _)
DataEntries(attrs, entries, n) ==
  IF n > Len(entries) THEN attrs
  ELSE IF ~Truthy(entries[n][2]) \/ entries[n][1] \in {"class", "id", "template", "region"}
       THEN DataEntries(attrs, entries, n + 1)
       ELSE DataEntries(attrSet(attrs, "data-" \o entries[n][1], entries[n][2]),
                        entries, n + 1)

attachDataAttrs(attrs, kind, name, mattrs) ==
  LET a1 == IF Truthy(name) /\ kind \in {"spread", "page", "section"}
            THEN attrSet(attrs, "data-" \o kind, name) ELSE attrs
      a2 == IF Truthy(AttrGet(mattrs, "template"))
            THEN attrSet(a1, "data-template", AttrGet(mattrs, "template")) ELSE a1
      a3 == IF Truthy(AttrGet(mattrs, "region"))
            THEN attrSet(a2, "data-region", AttrGet(mattrs, "region")) ELSE a2
      a4 == IF Truthy(AttrGet(mattrs, "id"))
            THEN attrSet(a3, "id", AttrGet(mattrs, "id")) ELSE a3
  IN DataEntries(a4, mattrs, 1)

\* The attributes openSpread/openPage/openSection put on the open token.
OpenAttrs(kind, baseClass, meta) ==
  attachDataAttrs(addClasses(<<>>, baseClass, AttrGet(meta.attrs, "class")),
                  kind, meta.name, meta.attrs)

\* The open token of a marker: new state.Token('layout_<kind>_open', 'div', 1)
\* after addClasses(t, baseClass, meta.attrs.class) and attachDataAttrs.
OpenToken(kind, baseClass, meta) ==
  Token("layout_" \o kind \o "_open", OpenAttrs(kind, baseClass, meta))

----------------------------------------------------------------------------
\* The close and open helpers of layout_transform, on the record of its locals.

closeSection(s) ==
  IF ~s.sectionOpen THEN s
  ELSE [s EXCEPT !.out = Append(@, Token("layout_section_close", <<>>)),
                 !.sectionOpen = FALSE]

\* closePage without its closeSection() call.
closePage_noCascade(s) ==
  IF ~s.pageOpen THEN s
  ELSE [s EXCEPT !.out = Append(@, Token("layout_page_close", <<>>)),
                 !.pageOpen = FALSE]

closePage(s) ==
  IF ~s.pageOpen THEN s
  ELSE LET t == closeSection(s)
       IN [t EXCEPT !.out = Append(@, Token("layout_page_close", <<>>)),
                    !.pageOpen = FALSE]

closeSpread(s) ==
  IF ~s.spreadOpen THEN s
  ELSE LET t == closePage(s)
       IN [t EXCEPT !.out = Append(@, Token("layout_spread_close", <<>>)),
                    !.spreadOpen = FALSE,
                    !.spreadStartedWithNoPagesYet = FALSE,
                    !.sawAnyPageInsideCurrentSpread = FALSE]

openSpread(s, meta) ==
  [s EXCEPT !.out = Append(@, OpenToken("spread", "spread", meta)),
            !.spreadOpen = TRUE,
            !.spreadStartedWithNoPagesYet = TRUE,
            !.sawAnyPageInsideCurrentSpread = FALSE]

\* openPage that, outside a spread with preferPagesInSpreads on, only warns.
openPage_needsSpread(s, meta, opts) ==
  IF ~s.spreadOpen /\ opts.preferPagesInSpreads
  THEN warn(s, meta.line, "page_outside_spread", meta)
  ELSE LET t == [s EXCEPT !.out = Append(@, OpenToken("page", "page", meta)),
                          !.pageOpen = TRUE]
       IN IF s.spreadOpen
          THEN [t EXCEPT !.sawAnyPageInsideCurrentSpread = TRUE,
                         !.spreadStartedWithNoPagesYet = FALSE]
          ELSE t

openPage(s, meta, opts) ==
  LET t == [s EXCEPT !.out = Append(@, OpenToken("page", "page", meta)),
                     !.pageOpen = TRUE]
  IN IF s.spreadOpen
     THEN [t EXCEPT !.sawAnyPageInsideCurrentSpread = TRUE,
                    !.spreadStartedWithNoPagesYet = FALSE]
     ELSE IF opts.preferPagesInSpreads
          THEN warn(t, meta.line, "page_outside_spread", meta)
          ELSE t

openSection(s, meta) ==
  [s EXCEPT !.out = Append(@, OpenToken("section", "region", meta)),
            !.sectionOpen = TRUE]

----------------------------------------------------------------------------
\* The body of the for loop of layout_transform, one operator per branch.

\* The non-marker branch without its out.push(tok).
copyToken_drop(s, tok) == s

\* The non-marker branch pushing the token twice.
copyToken_twice(s, tok) == [s EXCEPT !.out = Append(Append(@, tok), tok)]

\* tok.type !== 'layout_marker': out.push(tok).
copyToken(s, tok) == [s EXCEPT !.out = Append(@, tok)]

spreadBranch(s, meta) ==
  LET w == IF s.spreadOpen THEN warn(s, meta.line, "nested_spread", meta) ELSE s
  IN openSpread(closeSpread(w), meta)

\* The page branch closing the whole spread instead of the page.
pageBranch_closesSpread(s, meta, opts) == openPage(closeSpread(s), meta, opts)

pageBranch(s, meta, opts) == openPage(closePage(s), meta, opts)

\* The meta of the implicit page: { name: 'auto', attrs: {}, __line: line }.
AutoPage(line) == [kind |-> null, name |-> "auto", attrs |-> <<>>, line |-> line]

\* if (spreadOpen && spreadStartedWithNoPagesYet) warn(..., 'spread_without_pages', ...)
spreadWithoutPages(p, meta) ==
  IF p.spreadOpen /\ p.spreadStartedWithNoPagesYet
  THEN warn(p, meta.line, "spread_without_pages", meta)
  ELSE p

\* The implicit page opened from the section marker's own meta.
pageForSection_markerPage(c, meta, opts) ==
  IF ~c.pageOpen
  THEN IF opts.implicitPage
       THEN openPage(warn(c, meta.line, "implicit_page", meta), meta, opts)
       ELSE warn(c, meta.line, "section_without_page", meta)
  ELSE c

\* The implicit page opened without its implicit_page warning.
pageForSection_silent(c, meta, opts) ==
  IF ~c.pageOpen
  THEN IF opts.implicitPage
       THEN openPage(c, AutoPage(meta.line), opts)
       ELSE warn(c, meta.line, "section_without_page", meta)
  ELSE c

\* if (!pageOpen) { implicit page, or the section_without_page warning }
pageForSection(c, meta, opts) ==
  IF ~c.pageOpen
  THEN IF opts.implicitPage
       THEN openPage(warn(c, meta.line, "implicit_page", meta), AutoPage(meta.line), opts)
       ELSE warn(c, meta.line, "section_without_page", meta)
  ELSE c

\* The section branch without its closeSection() call.
sectionBranch_noClose(s, meta, opts) ==
  Bind(pageForSection(s, meta, opts),
       LAMBDA p : openSection(spreadWithoutPages(p, meta), meta))

sectionBranch(s, meta, opts) ==
  Bind(pageForSection(closeSection(s), meta, opts),
       LAMBDA p : openSection(spreadWithoutPages(p, meta), meta))

BreakToken ==
  Token("layout_break", <<<<"class", "md-break">>, <<"aria-hidden", "true">>>>)

\* A break that closes the open page together with its section.
breakBranch_cascade(s, meta, opts) ==
  LET w == IF ~s.sectionOpen /\ ~s.pageOpen /\ ~s.spreadOpen /\ opts.warnOnBreakWithoutScope
           THEN warn(s, meta.line, "break_without_scope", meta)
           ELSE s
      c == IF w.pageOpen THEN closePage(w)
           ELSE IF w.sectionOpen THEN closeSection(w)
           ELSE IF w.spreadOpen THEN closeSpread(w)
           ELSE w
  IN [c EXCEPT !.out = Append(@, BreakToken)]

\* A break that closes a section or a page and leaves a spread open.
breakBranch_keepsSpread(s, meta, opts) ==
  LET w == IF ~s.sectionOpen /\ ~s.pageOpen /\ ~s.spreadOpen /\ opts.warnOnBreakWithoutScope
           THEN warn(s, meta.line, "break_without_scope", meta)
           ELSE s
      c == IF w.sectionOpen THEN closeSection(w)
           ELSE IF w.pageOpen THEN closePage(w)
           ELSE w
  IN [c EXCEPT !.out = Append(@, BreakToken)]

\* A break that warns whenever no spread is open, whatever else is.
breakBranch_warnNoSpread(s, meta, opts) ==
  LET w == IF ~s.spreadOpen /\ opts.warnOnBreakWithoutScope
           THEN warn(s, meta.line, "break_without_scope", meta)
           ELSE s
      c == IF w.sectionOpen THEN closeSection(w)
           ELSE IF w.pageOpen THEN closePage(w)
           ELSE IF w.spreadOpen THEN closeSpread(w)
           ELSE w
  IN [c EXCEPT !.out = Append(@, BreakToken)]

breakBranch(s, meta, opts) ==
  LET w == IF ~s.sectionOpen /\ ~s.pageOpen /\ ~s.spreadOpen /\ opts.warnOnBreakWithoutScope
           THEN warn(s, meta.line, "break_without_scope", meta)
           ELSE s
      c == IF w.sectionOpen THEN closeSection(w)
           ELSE IF w.pageOpen THEN closePage(w)
           ELSE IF w.spreadOpen THEN closeSpread(w)
           ELSE w
  IN [c EXCEPT !.out = Append(@, BreakToken)]

\* One iteration of the for loop on token tok.
loopBody(s, tok, opts) ==
  IF tok.type # "layout_marker" THEN copyToken(s, tok)
  ELSE IF tok.meta.kind = "spread" THEN spreadBranch(s, tok.meta)
  ELSE IF tok.meta.kind = "page" THEN pageBranch(s, tok.meta, opts)
  ELSE IF tok.meta.kind = "section" THEN sectionBranch(s, tok.meta, opts)
  ELSE IF tok.meta.kind = "break" THEN breakBranch(s, tok.meta, opts)
  ELSE s

\* After the loop: the spread_eof_close warning and closeSpread().
endOfDocument(s) ==
  LET w == IF s.spreadOpen /\ ~s.sawAnyPageInsideCurrentSpread
           THEN warn(s, 0, "spread_eof_close", NoMeta)
           ELSE s
  IN closeSpread(w)

----------------------------------------------------------------------------
\* layout_transform as a whole.

\* The for loop over state.tokens from index n on.  acc lists the locals at
\* the start of every iteration so far, the last entry being the current locals;
\* the result lists them for the whole loop, its last entry being the locals
\* when the loop is over.
RECURSIVE forLoop(_, _, _, _)
forLoop(acc, toks, n, opts) ==
  IF n > Len(toks) THEN acc
  ELSE Bind(Append(acc, loopBody(acc[Len(acc)], toks[n], opts)),
            LAMBDA next : forLoop(next, toks, n + 1, opts))

\* The loop of layout_transform past its opt-in guard, from fresh locals,
\* env.layoutWarnings being lw.
transformLoop(toks, opts, lw) == forLoop(<<InitLocals(lw)>>, toks, 1, opts)

\* layout_transform past its opt-in guard: the locals when it ends.  out is the
\* new state.tokens, layoutWarnings the new env.layoutWarnings.
layout_transform(toks, opts, lw) ==
  Bind(transformLoop(toks, opts, lw), LAMBDA st : endOfDocument(st[Len(st)]))

----------------------------------------------------------------------------
\* The state machine: one render of one document, and a second render of the
\* same document under altOptions.

\* md.use(plugin, pluginOptions) and md.render(src, env) about to parse.  env is
\* either fresh or the env of an earlier render that used markers and raised
\* no warning.
InitRun ==
  /\ options \in Options
  /\ tokens = <<>>
  /\ layoutMarkersUsed \in BOOLEAN
  /\ layoutWarnings = <<>>
  /\ pc = "block"
  /\ input = <<>>
  /\ steps = <<>>
  /\ altTokens = <<>>
  /\ altWarnings = <<>>
  /\ src = <<>>
  /\ typed = <<>>

\* The two diagnostic-only options as a number, to take each pair of differing
\* option sets once.
DiagRank(o) ==
  (IF o.preferPagesInSpreads THEN 2 ELSE 0) + (IF o.warnOnBreakWithoutScope THEN 1 ELSE 0)

\* The second render repeats the first.
Init ==
  /\ InitRun
  /\ altOptions = options

\* The second render's options agree on implicitPage and differ in
\* preferPagesInSpreads or warnOnBreakWithoutScope (each such pair taken once).
InitPair ==
  /\ InitRun
  /\ altOptions \in Options
  /\ altOptions.implicitPage = options.implicitPage
  /\ DiagRank(options) < DiagRank(altOptions)

\* A line no marker rule claims: the host's block rules push a content token.
contentBlock ==
  /\ pc = "block"
  /\ Len(tokens) < MaxLen
  /\ tokens' = Append(tokens, ContentToken(Len(tokens) + 1))
  /\ UNCHANGED <<options, layoutMarkersUsed, layoutWarnings, pc, input, steps,
                 altOptions, altTokens, altWarnings, src, typed>>

\* markerBlock (not silent) on a line parseMarkerLine parses to a marker.
markerBlock ==
  /\ pc = "block"
  /\ \/ Len(tokens) < MaxLen
     \/ /\ Len(tokens) < MaxMarkers
        /\ \A n \in 1..Len(tokens) : tokens[n].type = "layout_marker"
  /\ \E m \in Metas : tokens' = Append(tokens, MarkerToken(m, Len(tokens) + 1))
  /\ layoutMarkersUsed' = TRUE
  /\ UNCHANGED <<options, layoutWarnings, pc, input, steps, altOptions, altTokens,
                 altWarnings, src, typed>>

\* The core rule when no marker was used: if (!state.env.__layoutMarkersUsed) return;
transformSkip ==
  /\ pc = "block"
  /\ ~layoutMarkersUsed
  /\ pc' = "done"
  /\ input' = tokens
  /\ altTokens' = tokens
  /\ UNCHANGED <<options, tokens, layoutMarkersUsed, layoutWarnings, steps, altOptions,
                 altWarnings, src, typed>>

\* The core rule past the guard: the loop, end-of-document, state.tokens = out.
\* (A second render under the same options evaluates the same operator on the
\* same arguments.)
transform ==
  /\ pc = "block"
  /\ layoutMarkersUsed
  /\ pc' = "done"
  /\ input' = tokens
  /\ \E st \in {transformLoop(tokens, options, layoutWarnings)} :
     \E r \in {endOfDocument(st[Len(st)])} :
     \E a \in {IF altOptions = options THEN r
               ELSE layout_transform(tokens, altOptions, altWarnings)} :
        /\ steps' = st
        /\ tokens' = r.out
        /\ layoutWarnings' = r.layoutWarnings
        /\ altTokens' = a.out
        /\ altWarnings' = a.layoutWarnings
  /\ UNCHANGED <<options, layoutMarkersUsed, altOptions, src, typed>>

Next ==
  \/ contentBlock
  \/ markerBlock
  \/ transformSkip
  \/ transform

Spec == Init /\ [][Next]_vars

SpecPair == InitPair /\ [][Next]_vars

----------------------------------------------------------------------------
\* One line through the marker rule and the core rule: a document of one line,
\* written word by word, offered to markerBlock, then transformed.

\* The first word of a line: the four markers, and words that are no marker.
Heads ==
  {<<"@", "s", "p", "r", "e", "a", "d">>,
   <<"@", "p", "a", "g", "e">>,
   <<"@", "s", "e", "c", "t", "i", "o", "n">>,
   <<"@", "b", "r", "e", "a", "k">>,
   <<"@">>,
   <<"@", "p", "a", "g", "e", "s">>,
   <<"p", "a", "g", "e">>}

\* The words after it: a name, # and . shorthands, key=value attributes (id,
\* the kinds' own names, class with a list, a quoted value).
Words ==
  {<<"n">>,
   <<"#", "y">>,
   <<"#", "z">>,
   <<"#">>,
   <<"i", "d", "=", "x">>,
   <<"s", "p", "r", "e", "a", "d", "=", "q">>,
   <<"p", "a", "g", "e", "=", "q">>,
   <<"s", "e", "c", "t", "i", "o", "n", "=", "q">>,
   <<".", "b">>,
   <<"c", "l", "a", "s", "s", "=", "c", ",", "d">>,
   <<"t", "=", "\"", "u", " ", "v", "\"">>}

\* plugin(md) with no pluginOptions: the defaults.
DefaultOptions ==
  [implicitPage |-> TRUE, preferPagesInSpreads |-> FALSE, warnOnBreakWithoutScope |-> TRUE]

\* md.use(plugin) and md.render(src, {}) with the one line of src still to write.
InitParse ==
  /\ options = DefaultOptions
  /\ altOptions = options
  /\ tokens = <<>>
  /\ layoutMarkersUsed = FALSE
  /\ layoutWarnings = <<>>
  /\ pc = "line"
  /\ input = <<>>
  /\ steps = <<>>
  /\ altTokens = <<>>
  /\ altWarnings = <<>>
  /\ src = <<>>
  /\ typed = <<>>

\* The line's first word, after no or one blank of indentation.
typeHead ==
  /\ pc = "line"
  /\ typed = <<>>
  /\ \E w \in Heads, indent \in {<<>>, <<" ">>} :
       /\ src' = indent \o w
       /\ typed' = <<w>>
  /\ UNCHANGED <<options, tokens, layoutMarkersUsed, layoutWarnings, pc, input, steps,
                 altOptions, altTokens, altWarnings>>

\* One more word on the line, after a blank.
typeWord ==
  /\ pc = "line"
  /\ typed # <<>>
  /\ Len(typed) <= MaxWords
  /\ \E w \in Words :
       /\ src' = src \o <<" ">> \o w
       /\ typed' = Append(typed, w)
  /\ UNCHANGED <<options, tokens, layoutMarkersUsed, layoutWarnings, pc, input, steps,
                 altOptions, altTokens, altWarnings>>

\* markerBlock (not silent) offered the line: it declines a line parseMarkerLine
\* returns null for, which the host's paragraph rule then takes; it claims any
\* other line, pushing the layout_marker token.
markerBlockLine ==
  /\ pc = "line"
  /\ typed # <<>>
  /\ pc' = "block"
  /\ \E parsed \in {parseMarkerLine(src)} :
       IF parsed.kind = null
       THEN /\ tokens' = Append(tokens, ContentToken(1))
            /\ UNCHANGED layoutMarkersUsed
       ELSE /\ tokens' = Append(tokens, MarkerToken(parsed, 1))
            /\ layoutMarkersUsed' = TRUE
  /\ UNCHANGED <<options, layoutWarnings, input, steps, altOptions, altTokens,
                 altWarnings, src, typed>>

NextParse ==
  \/ typeHead
  \/ typeWord
  \/ markerBlockLine
  \/ transformSkip
  \/ transform

SpecParse == InitParse /\ [][NextParse]_vars

----------------------------------------------------------------------------
\* Reading token lists and the recorded loop.

WrapperKinds == {"spread", "page", "section"}

OpenType(k) == "layout_" \o k \o "_open"
CloseType(k) == "layout_" \o k \o "_close"

Types(seq) == [n \in 1..Len(seq) |-> seq[n].type]

Count(seq, type) == Cardinality({n \in 1..Len(seq) : seq[n].type = type})

\* As many close nodes as open nodes, kind by kind.
Balanced(seq) ==
  \A k \in WrapperKinds : Count(seq, OpenType(k)) = Count(seq, CloseType(k))

\* A wrapper of kind k is open at the end of the token list.
OpenIn(seq, k) == Count(seq, OpenType(k)) > Count(seq, CloseType(k))

\* Reading the list from node n on, stack holding the kinds of the wrappers open
\* and unclosed (innermost last): every close node closes the innermost one, no
\* spread-open inside a page or section, no page-open inside a section.
RECURSIVE Nested(_, _, _)
Nested(seq, n, stack) ==
  IF n > Len(seq) THEN TRUE
  ELSE IF seq[n].type = "layout_spread_open"
       THEN /\ \A j \in 1..Len(stack) : stack[j] \notin {"page", "section"}
            /\ Nested(seq, n + 1, Append(stack, "spread"))
  ELSE IF seq[n].type = "layout_page_open"
       THEN /\ \A j \in 1..Len(stack) : stack[j] # "section"
            /\ Nested(seq, n + 1, Append(stack, "page"))
  ELSE IF seq[n].type = "layout_section_open"
       THEN Nested(seq, n + 1, Append(stack, "section"))
  ELSE IF \E k \in WrapperKinds : seq[n].type = CloseType(k)
       THEN /\ stack # <<>>
            /\ seq[n].type = CloseType(stack[Len(stack)])
            /\ Nested(seq, n + 1, SubSeq(stack, 1, Len(stack) - 1))
  ELSE Nested(seq, n + 1, stack)

WellNested(seq) == Nested(seq, 1, <<>>)

IsMarker(tok) == tok.type = "layout_marker"
IsKind(tok, k) == tok.type = "layout_marker" /\ tok.meta.kind = k
NoMarkers(seq) == \A n \in 1..Len(seq) : ~IsMarker(seq[n])

\* The kinds of the marker lines of a document of marker lines.
MarkerKinds(seq) == [n \in 1..Len(seq) |-> seq[n].meta.kind]

\* layout_transform ran past its guard and returned.
Ran == pc = "done" /\ layoutMarkersUsed

\* The nodes that iteration n of the loop pushed to out, and the warnings it recorded.
Emitted(n) == SubSeq(steps[n + 1].out, Len(steps[n].out) + 1, Len(steps[n + 1].out))
Warned(n) ==
  SubSeq(steps[n + 1].layoutWarnings, Len(steps[n].layoutWarnings) + 1,
         Len(steps[n + 1].layoutWarnings))

\* The locals when the loop is over, and what end-of-document pushed and recorded.
LoopEnd == steps[Len(steps)]
EofEmitted == SubSeq(tokens, Len(LoopEnd.out) + 1, Len(tokens))
EofWarned == SubSeq(layoutWarnings, Len(LoopEnd.layoutWarnings) + 1, Len(layoutWarnings))

WarnedTypes(w) == {w[j].type : j \in 1..Len(w)}

----------------------------------------------------------------------------
\* C1: when the transform finishes, the output holds as many close nodes as open
\* nodes of each kind (spread, page, section), for every document and options.
C1_Balanced == pc = "done" => Balanced(tokens)

\* C2: the output wrappers are well nested as spread, page, section: every close
\* node closes the innermost open wrapper, no spread-open is emitted inside an
\* open page or section, no page-open inside an open section.
C2_WellNested == pc = "done" => WellNested(tokens)

\* The document's markers are explicit and balanced: every page marker is
\* processed while a spread is open, every section marker while a page is open,
\* and nothing is open when the loop is over.
ExplicitBalanced ==
  /\ \A n \in 1..Len(input) :
       /\ IsKind(input[n], "page") => OpenIn(steps[n].out, "spread")
       /\ IsKind(input[n], "section") => OpenIn(steps[n].out, "page")
  /\ \A k \in WrapperKinds : ~OpenIn(LoopEnd.out, k)

\* C3: for a document with balanced explicit markers the output wrappers are
\* balanced kind by kind and properly nested.
C3_ExplicitBalanced ==
  (Ran /\ ExplicitBalanced) => (Balanced(tokens) /\ WellNested(tokens))

\* A balanced explicit document with a spread, a page and a section, closed by
\* three breaks.
C3_Witness ==
  /\ Ran
  /\ ExplicitBalanced
  /\ Count(tokens, "layout_section_open") >= 1
  /\ Count(tokens, "layout_break") >= 3

\* The close node a break owes to the token list before it: the innermost open
\* scope's, section before page before spread; none if nothing is open.
NearestClose(seq) ==
  IF OpenIn(seq, "section") THEN <<"layout_section_close">>
  ELSE IF OpenIn(seq, "page") THEN <<"layout_page_close">>
  ELSE IF OpenIn(seq, "spread") THEN <<"layout_spread_close">>
  ELSE <<>>

\* C4: every break marker emits the close node of the nearest open scope alone
\* (section, else page, else spread, else none) and right after it the break
\* node; the other scopes stay as they were.
C4_BreakClosesNearest ==
  Ran => \A n \in 1..Len(input) :
           IsKind(input[n], "break") =>
             /\ Types(Emitted(n)) = NearestClose(steps[n].out) \o <<"layout_break">>
             /\ \A k \in WrapperKinds :
                  OpenIn(steps[n + 1].out, k) =
                    (OpenIn(steps[n].out, k)
                       /\ NearestClose(steps[n].out) # <<CloseType(k)>>)

\* spread, page, section and three breaks: the breaks close section, page and
\* spread one at a time.
C4_Witness ==
  /\ Ran
  /\ Len(input) = 6
  /\ MarkerKinds(input) = <<"spread", "page", "section", "break", "break", "break">>
  /\ Types(tokens) = <<"layout_spread_open", "layout_page_open", "layout_section_open",
                       "layout_section_close", "layout_break",
                       "layout_page_close", "layout_break",
                       "layout_spread_close", "layout_break">>

\* Token n is a break marker that follows a spread marker with nothing but
\* content tokens in between.
SpreadThenBreak(n) ==
  /\ IsKind(input[n], "break")
  /\ \E j \in 1..(n - 1) :
       /\ IsKind(input[j], "spread")
       /\ \A m \in (j + 1)..(n - 1) : ~IsMarker(input[m])

\* C5 as stated: after a spread marker, content and one break marker the spread
\* is still open, the break emitted no spread-close.
C5_SpreadStaysOpen ==
  Ran => \A n \in 1..Len(input) :
           SpreadThenBreak(n) =>
             /\ OpenIn(steps[n + 1].out, "spread")
             /\ Count(Emitted(n), "layout_spread_close") = 0

\* C5 amended: after a spread marker, content and one break marker, no page or
\* section being open at the break, the break closes the spread: the spread-close
\* node comes right before the break node, no spread is open after it, and if
\* only content follows, end-of-document emits nothing.
C5_BreakClosesSpread ==
  Ran => \A n \in 1..Len(input) :
           (/\ SpreadThenBreak(n)
            /\ ~OpenIn(steps[n].out, "page")
            /\ ~OpenIn(steps[n].out, "section")) =>
             /\ Types(Emitted(n)) = <<"layout_spread_close", "layout_break">>
             /\ ~OpenIn(steps[n + 1].out, "spread")
             /\ (\A m \in (n + 1)..Len(input) : ~IsMarker(input[m])) => EofEmitted = <<>>

\* Content, a spread marker, content, the break, content.
C5_Witness ==
  /\ Ran
  /\ \E n \in 3..(Len(input) - 1) :
       /\ SpreadThenBreak(n)
       /\ ~IsMarker(input[n - 1])
       /\ ~IsMarker(input[Len(input)])
       /\ ~OpenIn(steps[n].out, "page")
       /\ ~OpenIn(steps[n].out, "section")
       /\ Count(tokens, "layout_spread_close") = 1

\* C6: a document without marker tokens comes out as it went in, and no
\* diagnostic is recorded, under every options.
C6_NoMarkersUnchanged ==
  (pc = "done" /\ NoMarkers(input)) => (tokens = input /\ layoutWarnings = <<>>)

\* A document of several content tokens went through the core rule.
C6_Witness == pc = "done" /\ NoMarkers(input) /\ Len(input) >= 2

\* The page-open node of an implicit page.
AutoPageOpen == Token("layout_page_open", <<<<"class", "page">>, <<"data-page", "auto">>>>)

\* C7: with implicitPage on, a section marker met while no page is open records
\* one implicit_page diagnostic, at the marker's line, and emits the implicit
\* page's open node right before the marker's section-open node; a section
\* marker met while a page is open records none and emits no page-open.
C7_ImplicitPage ==
  (Ran /\ options.implicitPage) =>
    \A n \in 1..Len(input) :
      IsKind(input[n], "section") =>
        LET em == Emitted(n)
            wn == Warned(n)
            imp == {j \in 1..Len(wn) : wn[j].type = "implicit_page"}
        IN IF ~OpenIn(steps[n].out, "page")
           THEN /\ Cardinality(imp) = 1
                /\ \A j \in imp : wn[j].line = input[n].meta.line
                /\ Len(em) >= 2
                /\ em[Len(em) - 1] = AutoPageOpen
                /\ em[Len(em)].type = "layout_section_open"
                /\ AttrGet(em[Len(em)].attrs, "data-section") = input[n].meta.name
                /\ Count(em, "layout_page_open") = 1
           ELSE /\ imp = {}
                /\ Count(em, "layout_page_open") = 0

\* One section marker met without an open page and one met with an open page.
C7_Witness ==
  /\ Ran
  /\ options.implicitPage
  /\ \E n \in 1..Len(input) :
       IsKind(input[n], "section") /\ ~OpenIn(steps[n].out, "page")
  /\ \E n \in 1..Len(input) :
       IsKind(input[n], "section") /\ OpenIn(steps[n].out, "page")

\* The index of the last node of that type, 0 if there is none.
LastIndex(seq, type) ==
  IF Count(seq, type) = 0 THEN 0
  ELSE CHOOSE n \in 1..Len(seq) :
         seq[n].type = type /\ \A m \in (n + 1)..Len(seq) : seq[m].type # type

\* No page was opened since the last spread-open node.
NoPageInSpread(seq) ==
  \A n \in (LastIndex(seq, "layout_spread_open") + 1)..Len(seq) :
    seq[n].type # "layout_page_open"

\* C8: at end-of-document spread_eof_close is recorded if and only if a spread
\* is open and no page was opened inside it; an open spread is closed fully:
\* section-close, page-close, spread-close, for those that are open.
C8_EofClose ==
  Ran =>
    /\ ("spread_eof_close" \in WarnedTypes(EofWarned))
         <=> (OpenIn(LoopEnd.out, "spread") /\ NoPageInSpread(LoopEnd.out))
    /\ OpenIn(LoopEnd.out, "spread") =>
         Types(EofEmitted) =
           (IF OpenIn(LoopEnd.out, "section") THEN <<"layout_section_close">> ELSE <<>>)
           \o (IF OpenIn(LoopEnd.out, "page") THEN <<"layout_page_close">> ELSE <<>>)
           \o <<"layout_spread_close">>

\* The diagnostics other than those of preferPagesInSpreads and
\* warnOnBreakWithoutScope.
IsOtherDiagnostic(d) == d.type \notin {"page_outside_spread", "break_without_scope"}

\* C10: two renders of one document whose options agree on implicitPage and
\* differ in preferPagesInSpreads or warnOnBreakWithoutScope give the same
\* output, and the same diagnostics but for page_outside_spread and
\* break_without_scope.
C10_DiagnosticsOnly ==
  pc = "done" =>
    /\ altTokens = tokens
    /\ SelectSeq(altWarnings, IsOtherDiagnostic) = SelectSeq(layoutWarnings, IsOtherDiagnostic)

\* Two renders that wrapped something and differ in their diagnostics.
C10_Witness ==
  /\ Ran
  /\ altOptions # options
  /\ altWarnings # layoutWarnings
  /\ Count(tokens, "layout_page_open") >= 1
  /\ Count(tokens, "layout_break") >= 1

----------------------------------------------------------------------------
\* Reading the one line offered to markerBlock.

\* markerBlock has been offered the line.
LineDone == pc \in {"block", "done"} /\ typed # <<>>

\* The token the block phase made of the line.
LineToken == IF pc = "block" THEN tokens[1] ELSE input[1]

\* The line was claimed as a spread, page or section marker.
WrapperLine == LineDone /\ IsMarker(LineToken) /\ LineToken.meta.kind \in WrapperKinds

\* The words of the line that are # shorthands with something after the #.
HashWords == {n \in 2..Len(typed) : typed[n][1] = "#" /\ Len(typed[n]) > 1}

\* The words of the line that are key=value attributes of that key.
KeyWords(key) ==
  {n \in 2..Len(typed) :
     /\ Len(typed[n]) > Len(key)
     /\ SubSeq(typed[n], 1, Len(key) + 1) = key \o <<"=">>}

LastOf(S) == CHOOSE n \in S : \A m \in S : m <= n

\* C11: the id of the parsed marker of a spread, page or section line is that
\* of the last # word with a non-empty suffix, absent if there is none; an id=
\* word never sets it, wherever it stands.
C11_IdFromHashOnly ==
  WrapperLine =>
    AttrGet(LineToken.meta.attrs, "id") =
      (IF HashWords = {} THEN null ELSE Str(Tail(typed[LastOf(HashWords)])))

\* The head word is @ followed by exactly spread, page, section or break.
MarkerHead == typed[1][1] = "@" /\ Str(Tail(typed[1])) \in Kinds

\* C12: the line becomes a marker if and only if its trimmed text starts with @
\* and its first word after the @ is exactly spread, page, section or break;
\* any other line is left to the host as content: no marker token, the opt-in
\* flag untouched, the content token unchanged by the core rule, no diagnostic.
C12_MarkerIffKind ==
  LineDone =>
    /\ IsMarker(LineToken) <=> MarkerHead
    /\ IsMarker(LineToken) => LineToken.meta.kind = Str(Tail(typed[1]))
    /\ ~IsMarker(LineToken) =>
         /\ LineToken = ContentToken(1)
         /\ ~layoutMarkersUsed
         /\ layoutWarnings = <<>>
         /\ pc = "done" => tokens = <<ContentToken(1)>>

\* An indented line of @pages and attribute words went through as content.
C12_Witness ==
  /\ pc = "done"
  /\ Len(typed) >= 3
  /\ typed[1] = <<"@", "p", "a", "g", "e", "s">>
  /\ src[1] = " "
  /\ tokens = <<ContentToken(1)>>

\* The open nodes of that kind in the output.
OpenNodes(k) == {n \in 1..Len(tokens) : tokens[n].type = OpenType(k)}

\* C13: the open node of a named spread, page or section marker carries
\* data-spread, data-page or data-section equal to the name, whatever other
\* attributes the line has; every break node carries class md-break and
\* aria-hidden true and nothing else.
C13_DataName ==
  pc = "done" =>
    /\ (WrapperLine /\ LineToken.meta.name # null) =>
         \E n \in OpenNodes(LineToken.meta.kind) :
           AttrGet(tokens[n].attrs, "data-" \o LineToken.meta.kind) = LineToken.meta.name
    /\ \A n \in 1..Len(tokens) :
         tokens[n].type = "layout_break" =>
           tokens[n].attrs = <<<<"class", "md-break">>, <<"aria-hidden", "true">>>>

----------------------------------------------------------------------------
\* Open nodes less close nodes of kind k among the first n nodes.
Depth(seq, n, k) ==
  Cardinality({j \in 1..n : seq[j].type = OpenType(k)})
    - Cardinality({j \in 1..n : seq[j].type = CloseType(k)})

\* C14: in every prefix of the output, for each kind, the open nodes less the
\* close nodes number 0 or 1: at most one scope of a kind is open at a time and
\* a close node comes only when its kind is open.
C14_OneOpenPerKind ==
  pc = "done" =>
    \A k \in WrapperKinds : \A n \in 0..Len(tokens) : Depth(tokens, n, k) \in {0, 1}

\* A spread, a page and a section marker were each met while a scope of their
\* own kind was open.
C14_Witness ==
  /\ Ran
  /\ \A k \in WrapperKinds :
       \E n \in 1..Len(input) : IsKind(input[n], k) /\ OpenIn(steps[n].out, k)

\* The number of diagnostics of that type in the list.
CountWarned(w, type) == Cardinality({j \in 1..Len(w) : w[j].type = type})

\* The close nodes that close every scope open at the end of the token list,
\* innermost first.
FullClose(seq) ==
  (IF OpenIn(seq, "section") THEN <<"layout_section_close">> ELSE <<>>)
  \o (IF OpenIn(seq, "page") THEN <<"layout_page_close">> ELSE <<>>)
  \o (IF OpenIn(seq, "spread") THEN <<"layout_spread_close">> ELSE <<>>)

\* C15: a spread marker met while a spread is open records one nested_spread
\* and closes the open section, page and spread, in that order, before the new
\* spread-open node, after which no page and no section is open; a spread
\* marker met while no spread is open records no nested_spread.
C15_NestedSpread ==
  Ran => \A n \in 1..Len(input) :
           IsKind(input[n], "spread") =>
             IF OpenIn(steps[n].out, "spread")
             THEN /\ CountWarned(Warned(n), "nested_spread") = 1
                  /\ Types(Emitted(n)) = FullClose(steps[n].out) \o <<"layout_spread_open">>
                  /\ ~OpenIn(steps[n + 1].out, "page")
                  /\ ~OpenIn(steps[n + 1].out, "section")
             ELSE CountWarned(Warned(n), "nested_spread") = 0

\* C16: a section marker met while a spread is open in which no page was opened
\* yet records spread_without_pages, besides implicit_page (implicitPage on) or
\* section_without_page (implicitPage off), and still emits its section-open.
C16_SpreadWithoutPages ==
  Ran => \A n \in 1..Len(input) :
           (/\ IsKind(input[n], "section")
            /\ OpenIn(steps[n].out, "spread")
            /\ NoPageInSpread(steps[n].out)) =>
             /\ CountWarned(Warned(n), "spread_without_pages") = 1
             /\ CountWarned(Warned(n), IF options.implicitPage THEN "implicit_page"
                                       ELSE "section_without_page") = 1
             /\ Count(Emitted(n), "layout_section_open") = 1

\* Some scope is open at the end of the token list.
AnyOpen(seq) == \E k \in WrapperKinds : OpenIn(seq, k)

\* C17: a break marker records break_without_scope if and only if nothing is
\* open when it is met and warnOnBreakWithoutScope is on; a break met while a
\* scope is open records nothing; every break marker emits exactly one break node.
C17_BreakWithoutScope ==
  Ran => \A n \in 1..Len(input) :
           IsKind(input[n], "break") =>
             /\ CountWarned(Warned(n), "break_without_scope") =
                  (IF ~AnyOpen(steps[n].out) /\ options.warnOnBreakWithoutScope
                   THEN 1 ELSE 0)
             /\ AnyOpen(steps[n].out) => Warned(n) = <<>>
             /\ Count(Emitted(n), "layout_break") = 1

\* With the option on: a break met with nothing open, one met with a page open
\* outside any spread, and one met with a spread open.
C17_Witness ==
  /\ Ran
  /\ options.warnOnBreakWithoutScope
  /\ \E n \in 1..Len(input) : IsKind(input[n], "break") /\ ~AnyOpen(steps[n].out)
  /\ \E n \in 1..Len(input) :
       /\ IsKind(input[n], "break")
       /\ OpenIn(steps[n].out, "page")
       /\ ~OpenIn(steps[n].out, "spread")
  /\ \E n \in 1..Len(input) : IsKind(input[n], "break") /\ OpenIn(steps[n].out, "spread")

\* C18: a page marker emits no spread-close and leaves the spread open or closed
\* as it was; met while a page is open it emits the section-close (if a section
\* is open), then the page-close, then the new page-open, and the closes record
\* no diagnostic.
C18_PageKeepsSpread ==
  Ran => \A n \in 1..Len(input) :
           IsKind(input[n], "page") =>
             /\ Count(Emitted(n), "layout_spread_close") = 0
             /\ OpenIn(steps[n + 1].out, "spread") = OpenIn(steps[n].out, "spread")
             /\ WarnedTypes(Warned(n)) \subseteq {"page_outside_spread"}
             /\ OpenIn(steps[n].out, "page") =>
                  Types(Emitted(n)) =
                    (IF OpenIn(steps[n].out, "section")
                     THEN <<"layout_section_close">> ELSE <<>>)
                    \o <<"layout_page_close", "layout_page_open">>

\* A page marker met inside a spread with a page and a section open.
C18_Witness ==
  /\ Ran
  /\ \E n \in 1..Len(input) :
       /\ IsKind(input[n], "page")
       /\ OpenIn(steps[n].out, "spread")
       /\ OpenIn(steps[n].out, "page")
       /\ OpenIn(steps[n].out, "section")
       /\ Warned(n) = <<>>

\* C19: page_outside_spread is recorded once by every page marker met while no
\* spread is open with preferPagesInSpreads on, and never otherwise: not with a
\* spread open, not with the option off, not by another marker, not at
\* end-of-document.
C19_PageOutsideSpread ==
  Ran =>
    /\ \A n \in 1..Len(input) :
         CountWarned(Warned(n), "page_outside_spread") =
           (IF /\ IsKind(input[n], "page")
               /\ ~OpenIn(steps[n].out, "spread")
               /\ options.preferPagesInSpreads
            THEN 1 ELSE 0)
    /\ CountWarned(EofWarned, "page_outside_spread") = 0

\* A content node: one that is neither a marker nor a node the transform makes.
IsContent(tok) ==
  tok.type \notin {"layout_marker", "layout_break"}
                    \cup {OpenType(k) : k \in WrapperKinds}
                    \cup {CloseType(k) : k \in WrapperKinds}

\* C20: the content nodes of the output are the content nodes of the input, the
\* same nodes in the same order.
C20_ContentPassThrough ==
  pc = "done" => SelectSeq(tokens, IsContent) = SelectSeq(input, IsContent)

\* Content before, between and after markers, with nodes opened and closed
\* around it by the transform.
C20_Witness ==
  /\ Ran
  /\ Len(SelectSeq(input, IsContent)) >= 2
  /\ ~IsMarker(input[1])
  /\ ~IsMarker(input[Len(input)])
  /\ Count(tokens, "layout_page_open") >= 1
  /\ Count(tokens, "layout_page_close") >= 1

----------------------------------------------------------------------------
\* The number of markers of that kind in the document.
CountKind(seq, k) == Cardinality({n \in 1..Len(seq) : IsKind(seq[n], k)})

\* C21: every marker is consumed exactly once and none survives: the output
\* holds no marker node, as many spread-open nodes as spread markers, as many
\* section-open nodes as section markers, as many break nodes as break markers,
\* and as many page-open nodes as page markers and implicit_page diagnostics
\* together.
C21_MarkersConsumed ==
  pc = "done" =>
    /\ NoMarkers(tokens)
    /\ Count(tokens, "layout_spread_open") = CountKind(input, "spread")
    /\ Count(tokens, "layout_section_open") = CountKind(input, "section")
    /\ Count(tokens, "layout_break") = CountKind(input, "break")
    /\ Count(tokens, "layout_page_open") =
         CountKind(input, "page") + CountWarned(layoutWarnings, "implicit_page")

\* A document with markers of all four kinds, one of its sections getting an
\* implicit page.
C21_Witness ==
  /\ Ran
  /\ \A k \in Kinds : CountKind(input, k) >= 1
  /\ CountWarned(layoutWarnings, "implicit_page") >= 1

====
